---- MODULE Spec2Model ----
(***************************************************************************)
(* Model of loan_calculator/app.py: the input normalisers, the fixed       *)
(* monthly payment, the amortization loop and the monthly summary of       *)
(* calculate().                                                            *)
(*                                                                         *)
(* Python floats are modelled as exact rational numbers: every value is    *)
(* sign * n * Base^e / d with n and d natural numbers of unbounded size,   *)
(* kept as sequences of limbs (least significant first), so that the 361st *)
(* power and the 361 loop iterations of the source are computed without    *)
(* overflow and without rounding.  Float rounding is therefore NOT part of *)
(* the model; what is established is established in exact arithmetic.      *)
(*                                                                         *)
(* An intermediate value that is used more than once is passed as the      *)
(* parameter of a local operator, so that TLC evaluates it once.           *)
(***************************************************************************)
EXTENDS Integers, Sequences, FiniteSets, TLC

Base == 100 * 100

Max(a, b) == IF a >= b THEN a ELSE b

Min(a, b) == IF a <= b THEN a ELSE b

(***************************************************************************)
(* Natural numbers of unbounded size: <<>> is zero, the last limb of a     *)
(* non-zero number is not 0.                                               *)
(***************************************************************************)
Limb(a, i) == IF i >= 1 /\ i <= Len(a) THEN a[i] ELSE 0

\* The limbs lo..hi of the raw sequence t after carry propagation, with the
\* carry that leaves position hi.
RECURSIVE Carry(_, _, _, _)
Carry(t, lo, hi, cin) ==
    IF lo > hi THEN [v |-> <<>>, c |-> cin]
    ELSE IF lo = hi
    THEN LET x == t[lo] + cin IN [v |-> <<x % Base>>, c |-> x \div Base]
    ELSE LET mid == (lo + hi) \div 2
             Join(L, R) == [v |-> L.v \o R.v, c |-> R.c]
             Right(L) == Join(L, Carry(t, mid + 1, hi, L.c))
         IN Right(Carry(t, lo, mid, cin))

RECURSIVE CarryOut(_)
CarryOut(c) == IF c = 0 THEN <<>> ELSE <<c % Base>> \o CarryOut(c \div Base)

TrimHigh(v) ==
    IF v = <<>> \/ v[Len(v)] # 0 THEN v
    ELSE IF \A i \in 1..Len(v) : v[i] = 0 THEN <<>>
    ELSE LET k == CHOOSE j \in 1..Len(v) :
                      /\ v[Len(v) - j] # 0
                      /\ \A i \in (Len(v) - j + 1)..Len(v) : v[i] = 0
         IN SubSeq(v, 1, Len(v) - k)

FromRaw(t, n) ==
    LET Out(r) == TrimHigh(r.v \o CarryOut(r.c)) IN Out(Carry(t, 1, n, 0))

BigAdd(a, b) ==
    LET n == Max(Len(a), Len(b))
    IN FromRaw([i \in 1..n |-> Limb(a, i) + Limb(b, i)], n)

\* a - b for a >= b
BigSub(a, b) ==
    LET n == Max(Len(a), Len(b))
    IN FromRaw([i \in 1..n |-> Limb(a, i) - Limb(b, i)], n)

Shift(a, k) == IF a = <<>> \/ k = 0 THEN a ELSE [i \in 1..k |-> 0] \o a

\* How many limb products can be summed in a machine integer.
ChunkLen == (2147483647 \div (Base * Base)) - 1

RECURSIVE ConvSum(_, _, _, _)
ConvSum(a, b, i, j) ==
    IF j = 0 THEN 0 ELSE Limb(a, i - j + 1) * b[j] + ConvSum(a, b, i, j - 1)

\* a * b for a b of at most ChunkLen limbs
MulShort(a, b) ==
    LET n == Len(a) + Len(b)
    IN FromRaw([i \in 1..n |-> ConvSum(a, b, i, Len(b))], n)

RECURSIVE MulLong(_, _)
MulLong(a, b) ==
    IF Len(b) <= ChunkLen THEN MulShort(a, b)
    ELSE LET h == Len(b) \div 2
         IN BigAdd(MulLong(a, SubSeq(b, 1, h)),
                   Shift(MulLong(a, SubSeq(b, h + 1, Len(b))), h))

BigMul(a, b) ==
    IF a = <<>> \/ b = <<>> THEN <<>>
    ELSE IF b = <<1>> THEN a
    ELSE IF a = <<1>> THEN b
    ELSE IF Len(b) <= Len(a) THEN MulLong(a, b) ELSE MulLong(b, a)

\* -1, 0 or 1 as a < b, a = b or a > b, on the limbs lo..hi of equal-length a, b
RECURSIVE CmpLimbs(_, _, _, _)
CmpLimbs(a, b, lo, hi) ==
    IF lo = hi
    THEN (IF a[lo] < b[lo] THEN -1 ELSE IF a[lo] > b[lo] THEN 1 ELSE 0)
    ELSE LET mid == (lo + hi) \div 2
         IN IF SubSeq(a, mid + 1, hi) = SubSeq(b, mid + 1, hi)
            THEN CmpLimbs(a, b, lo, mid)
            ELSE CmpLimbs(a, b, mid + 1, hi)

BigCmp(a, b) ==
    IF a = b THEN 0
    ELSE IF Len(a) < Len(b) THEN -1
    ELSE IF Len(a) > Len(b) THEN 1
    ELSE CmpLimbs(a, b, 1, Len(a))

RECURSIVE BigOfNat(_)
BigOfNat(k) == IF k = 0 THEN <<>> ELSE <<k % Base>> \o BigOfNat(k \div Base)

RECURSIVE Gcd(_, _)
Gcd(a, b) == IF b = 0 THEN a ELSE Gcd(b, a % b)

(***************************************************************************)
(* Numbers: sign s, numerator n, denominator d, exponent e of Base.        *)
(***************************************************************************)
Zero == [s |-> 0, n |-> <<>>, d |-> <<1>>, e |-> 0]

\* Number of zero limbs at the low end of a non-zero a.
LowZeros(a) ==
    IF a[1] # 0 THEN 0
    ELSE CHOOSE j \in 1..Len(a) : a[j + 1] # 0 /\ \A i \in 1..j : a[i] = 0

\* Zero limbs at the low end of n and d go to the exponent.
Strip(x) ==
    LET zn == LowZeros(x.n)
        zd == LowZeros(x.d)
    IN [s |-> x.s,
        n |-> SubSeq(x.n, zn + 1, Len(x.n)),
        d |-> SubSeq(x.d, zd + 1, Len(x.d)),
        e |-> x.e + zn - zd]

\* A one-limb n and d are reduced by their gcd.
Reduce(x) ==
    IF Len(x.n) = 1 /\ Len(x.d) = 1 /\ x.d # <<1>>
    THEN LET g == Gcd(x.n[1], x.d[1])
         IN [x EXCEPT !.n = <<x.n[1] \div g>>, !.d = <<x.d[1] \div g>>]
    ELSE x

\* A one-limb d that divides Base goes to the exponent.
Scale(x) ==
    IF Len(x.d) = 1 /\ x.d # <<1>> /\ Base % x.d[1] = 0
    THEN [x EXCEPT !.n = BigMul(x.n, <<Base \div x.d[1]>>),
                   !.d = <<1>>, !.e = x.e - 1]
    ELSE x

Norm(x) == IF x.s = 0 \/ x.n = <<>> THEN Zero ELSE Strip(Scale(Reduce(Strip(x))))

Num(k) ==
    IF k = 0 THEN Zero
    ELSE Norm([s |-> IF k < 0 THEN -1 ELSE 1,
               n |-> BigOfNat(IF k < 0 THEN -k ELSE k), d |-> <<1>>, e |-> 0])

Neg(x) == [x EXCEPT !.s = -x.s]

Add(x, y) ==
    IF x.s = 0 THEN y
    ELSE IF y.s = 0 THEN x
    ELSE LET m == Min(x.e, y.e)
             Signed(nx, ny, d, c) ==
                 IF x.s = y.s
                 THEN Norm([s |-> x.s, n |-> BigAdd(nx, ny), d |-> d, e |-> m])
                 ELSE IF c = 0 THEN Zero
                 ELSE IF c > 0
                 THEN Norm([s |-> x.s, n |-> BigSub(nx, ny), d |-> d, e |-> m])
                 ELSE Norm([s |-> y.s, n |-> BigSub(ny, nx), d |-> d, e |-> m])
             Compared(nx, ny, d) == Signed(nx, ny, d, BigCmp(nx, ny))
             Scaled(sx, sy) ==
                 IF x.d = y.d THEN Compared(sx, sy, x.d)
                 ELSE Compared(BigMul(sx, y.d), BigMul(sy, x.d),
                               BigMul(x.d, y.d))
         IN Scaled(Shift(x.n, x.e - m), Shift(y.n, y.e - m))

Sub(x, y) == Add(x, Neg(y))

Mul(x, y) ==
    IF x.s = 0 \/ y.s = 0 THEN Zero
    ELSE Norm([s |-> x.s * y.s, n |-> BigMul(x.n, y.n),
               d |-> BigMul(x.d, y.d), e |-> x.e + y.e])

\* x / y for y # 0
Div(x, y) ==
    IF x.s = 0 THEN Zero
    ELSE Norm([s |-> x.s * y.s, n |-> BigMul(x.n, y.d),
               d |-> BigMul(x.d, y.n), e |-> x.e - y.e])

RECURSIVE Pow(_, _)
Pow(x, k) ==
    IF k = 0 THEN Num(1)
    ELSE IF k = 1 THEN x
    ELSE LET Square(h) == Mul(h, h)
             Times(sq) == IF k % 2 = 0 THEN sq ELSE Mul(sq, x)
         IN Times(Square(Pow(x, k \div 2)))

Sign(x) == x.s

Eq(x, y) == Sign(Sub(x, y)) = 0

Lt(x, y) == Sign(Sub(x, y)) < 0

Le(x, y) == Sign(Sub(x, y)) <= 0

\* The number p / q for integers p and q # 0.
Frac(p, q) == Div(Num(p), Num(q))

One == Num(1)

(***************************************************************************)
(* The functions of app.py.                                                *)
(***************************************************************************)
\* The outcome of a call: a returned value, or the exception it raised.
Return(v) == [raised |-> "", value |-> v]

Raise(exc) == [raised |-> exc, value |-> Zero]

\* convert_down_payment() with the upper bound of the test made strict.
convert_down_payment_strict(down_pmt, sale_price) ==
    IF Le(Zero, down_pmt) /\ Lt(down_pmt, One)
    THEN Mul(sale_price, down_pmt)
    ELSE down_pmt

convert_down_payment(down_pmt, sale_price) ==
    IF Le(Zero, down_pmt) /\ Le(down_pmt, One)
    THEN Mul(sale_price, down_pmt)
    ELSE down_pmt

\* convert_rates() with the upper bound of the test made strict.
convert_rates_strict(rate) ==
    IF Le(Zero, rate) /\ Lt(rate, One)
    THEN rate
    ELSE Div(rate, Num(100))

convert_rates(rate) ==
    IF Le(Zero, rate) /\ Le(rate, One)
    THEN rate
    ELSE Div(rate, Num(100))

\* monthly_payment() with the exponent 360 in place of 361.
monthly_payment_exp360(monthly_interest_rate, financed_amt) ==
    LET Quotient(numer, denom) ==
            IF Sign(denom) = 0
            THEN Raise("ZeroDivisionError")
            ELSE Return(Mul(financed_amt, Div(numer, denom)))
    IN Quotient(Mul(monthly_interest_rate,
                    Pow(Add(One, monthly_interest_rate), 360)),
                Sub(Pow(Add(One, monthly_interest_rate), 360), One))

\* monthly_payment() with the quotient upside down.
monthly_payment_inverted(monthly_interest_rate, financed_amt) ==
    LET Quotient(numer, denom) ==
            IF Sign(numer) = 0
            THEN Raise("ZeroDivisionError")
            ELSE Return(Mul(financed_amt, Div(denom, numer)))
    IN Quotient(Mul(monthly_interest_rate,
                    Pow(Add(One, monthly_interest_rate), 361)),
                Sub(Pow(Add(One, monthly_interest_rate), 361), One))

\* numer and denom of lines 145-146, then line 148: float / float raises
\* ZeroDivisionError on a zero divisor.
monthly_payment(monthly_interest_rate, financed_amt) ==
    LET Quotient(numer, denom) ==
            IF Sign(denom) = 0
            THEN Raise("ZeroDivisionError")
            ELSE Return(Mul(financed_amt, Div(numer, denom)))
    IN Quotient(Mul(monthly_interest_rate,
                    Pow(Add(One, monthly_interest_rate), 361)),
                Sub(Pow(Add(One, monthly_interest_rate), 361), One))

\* principal_payment() with the balance left out of the interest.
principal_payment_no_balance(monthly_payment_, monthly_interest_rate, financed_amt) ==
    Sub(monthly_payment_, monthly_interest_rate)

principal_payment(monthly_payment_, monthly_interest_rate, financed_amt) ==
    Sub(monthly_payment_, Mul(financed_amt, monthly_interest_rate))

\* The loop body with the principal added to the balance.
amortization_body_add(monthly_payment_, monthly_interest_rate, financed_amt) ==
    LET Row(principal) ==
            [principal |-> principal,
             interest |-> Sub(monthly_payment_, principal),
             financed_amt |-> Add(financed_amt, principal)]
    IN Row(Sub(monthly_payment_, Mul(financed_amt, monthly_interest_rate)))

\* One iteration of the loop of amortization(): what it appends to the three
\* lists and the new value of its local financed_amt.
amortization_body(monthly_payment_, monthly_interest_rate, financed_amt) ==
    LET Row(principal) ==
            [principal |-> principal,
             interest |-> Sub(monthly_payment_, principal),
             financed_amt |-> Sub(financed_amt, principal)]
    IN Row(principal_payment(monthly_payment_, monthly_interest_rate,
                             financed_amt))

\* The rows the iterations lo .. hi - 1 of for _ in range(1, 362) append, from
\* the balance financed_amt: the first half, then the second half from the
\* balance the first half leaves.
RECURSIVE amortization_loop(_, _, _, _, _)
amortization_loop(monthly_payment_, monthly_interest_rate, financed_amt, lo, hi) ==
    IF lo >= hi THEN <<>>
    ELSE IF hi = lo + 1
    THEN <<amortization_body(monthly_payment_, monthly_interest_rate,
                             financed_amt)>>
    ELSE LET mid == (lo + hi) \div 2
             Rest(head) ==
                 head \o amortization_loop(monthly_payment_,
                                           monthly_interest_rate,
                                           head[Len(head)].financed_amt, mid, hi)
         IN Rest(amortization_loop(monthly_payment_, monthly_interest_rate,
                                   financed_amt, lo, mid))

\* amortization(): the three lists it returns.
amortization(monthly_payment_, monthly_interest_rate, financed_amt) ==
    LET Lists(rows) ==
            <<[t \in 1..Len(rows) |-> rows[t].principal],
              [t \in 1..Len(rows) |-> rows[t].interest],
              [t \in 1..Len(rows) |-> rows[t].financed_amt]>>
    IN Lists(amortization_loop(monthly_payment_, monthly_interest_rate,
                               financed_amt, 1, 362))

\* total_monthly_payment() with the HOA dues left out of the total.
total_monthly_payment_no_hoa(monthly_payment_, property_taxes, home_insurance, hoa, sale_price) ==
    LET monthly_home_insurance == Div(home_insurance, Num(12))
        monthly_property_tax == Div(Mul(sale_price, property_taxes), Num(12))
        total_payment == Add(Add(monthly_payment_, monthly_home_insurance),
                             monthly_property_tax)
    IN <<total_payment, monthly_home_insurance, monthly_property_tax>>

total_monthly_payment(monthly_payment_, property_taxes, home_insurance, hoa, sale_price) ==
    LET monthly_home_insurance == Div(home_insurance, Num(12))
        monthly_property_tax == Div(Mul(sale_price, property_taxes), Num(12))
        total_payment == Add(Add(Add(monthly_payment_, monthly_home_insurance),
                                 monthly_property_tax), hoa)
    IN <<total_payment, monthly_home_insurance, monthly_property_tax>>

\* zip(principal_pmt, interest_pmt, balance): the rows of the DataFrame.
Zip(principal_pmt_, interest_pmt_, balance_) ==
    [t \in 1..Min(Len(principal_pmt_), Min(Len(interest_pmt_), Len(balance_))) |->
        [principal |-> principal_pmt_[t],
         interest |-> interest_pmt_[t],
         balance |-> balance_[t]]]

(***************************************************************************)
(* The values the input widgets of main() supply: each is >= 0, the        *)
(* property tax is <= 100.                                                 *)
(***************************************************************************)
SalePrices == {Num(500000)}

DownPayments == {Frac(1, 20), One, Num(100000)}

InterestRates == {Zero, Frac(6, 100), Num(1200)}

PropertyTaxes == {Frac(13, 1000), One, Frac(13, 10)}

HomeInsurances == {Num(1000), Num(1500)}

HOADues == {Zero, Num(200)}

NoInputs ==
    [sale_price |-> Zero, down_pmt |-> Zero, interest_rate |-> Zero,
     property_taxes |-> Zero, home_insurance |-> Zero, hoa |-> Zero]

NoResp ==
    [financed_amt |-> Zero, monthly_pmt |-> Zero, amortization |-> <<>>,
     total_payment |-> Zero, monthly_home_insurance |-> Zero,
     monthly_property_tax |-> Zero]

NoFrame == [monthly_payment |-> Zero, monthly_interest_rate |-> Zero,
            financed_amt |-> Zero, start |-> Zero]

(***************************************************************************)
(* State.  pc is the position of the run: "idle" before calculate() is     *)
(* called, "done" after calculate() has returned resp, "raised" after an   *)
(* exception left the function; where a function is run alone, "call" at   *)
(* the call of monthly_payment(), "amortization" inside the loop of        *)
(* amortization(), "returned" once the function has returned.              *)
(* inputs is the kwargs of main(), kwargs the dict calculate() rewrites;   *)
(* financed_amt, monthly_interest_rate and monthly_pmt are the locals of   *)
(* calculate(); am holds the parameters of amortization() (financed_amt is *)
(* the one the loop reassigns, start its value at the call), period is the *)
(* loop variable and principal_pmt, interest_pmt, balance are its lists.   *)
(***************************************************************************)
VARIABLES pc, inputs, kwargs, financed_amt, monthly_interest_rate, monthly_pmt,
          am, period, principal_pmt, interest_pmt, balance, resp, raised

vars == <<pc, inputs, kwargs, financed_amt, monthly_interest_rate, monthly_pmt,
          am, period, principal_pmt, interest_pmt, balance, resp, raised>>

calcVars == <<inputs, kwargs, financed_amt, monthly_interest_rate, monthly_pmt>>

Init ==
    /\ pc = "idle"
    /\ inputs = NoInputs
    /\ kwargs = NoInputs
    /\ financed_amt = Zero
    /\ monthly_interest_rate = Zero
    /\ monthly_pmt = Zero
    /\ am = NoFrame
    /\ period = 0
    /\ principal_pmt = <<>>
    /\ interest_pmt = <<>>
    /\ balance = <<>>
    /\ resp = NoResp
    /\ raised = ""

\* The part of calculate() that depends on the sale price, the down payment and
\* the interest rate alone: lines 88-91 and 93-103.  The conversion of the
\* property tax rate (line 92) reads and writes nothing these lines use.
calculate_loan(sale_price, down_pmt_, interest_rate_) ==
    LET Amortized(down_pmt, interest_rate, financed, rate, payment) ==
            [down_pmt |-> down_pmt,
             interest_rate |-> interest_rate,
             financed_amt |-> financed,
             monthly_interest_rate |-> rate,
             monthly_pmt |-> payment,
             amortization |-> IF payment.raised # ""
                              THEN <<>>
                              ELSE amortization(payment.value, rate, financed)]
        Paid(down_pmt, interest_rate, financed, rate) ==
            Amortized(down_pmt, interest_rate, financed, rate,
                      monthly_payment(rate, financed))
        Converted(down_pmt, interest_rate) ==
            Paid(down_pmt, interest_rate, Sub(sale_price, down_pmt),
                 Div(interest_rate, Num(12)))
    IN Converted(convert_down_payment(down_pmt_, sale_price),
                 convert_rates(interest_rate_))

\* main() calls calculate(**kwargs) and calculate() runs to its return, or to the
\* exception that leaves it.
Calculate ==
    /\ pc = "idle"
    /\ \E sale_price \in SalePrices, down_pmt \in DownPayments,
          interest_rate \in InterestRates :
         \E c \in {calculate_loan(sale_price, down_pmt, interest_rate)} :
           \E property_taxes \in PropertyTaxes,
              home_insurance \in HomeInsurances, hoa \in HOADues :
             /\ inputs' = [sale_price |-> sale_price, down_pmt |-> down_pmt,
                           interest_rate |-> interest_rate,
                           property_taxes |-> property_taxes,
                           home_insurance |-> home_insurance, hoa |-> hoa]
             /\ kwargs' = [sale_price |-> sale_price,
                           down_pmt |-> c.down_pmt,
                           interest_rate |-> c.interest_rate,
                           property_taxes |-> convert_rates(property_taxes),
                           home_insurance |-> home_insurance, hoa |-> hoa]
             /\ financed_amt' = c.financed_amt
             /\ monthly_interest_rate' = c.monthly_interest_rate
             /\ IF c.monthly_pmt.raised # ""
                THEN /\ raised' = c.monthly_pmt.raised
                     /\ pc' = "raised"
                     /\ UNCHANGED <<monthly_pmt, resp>>
                ELSE /\ monthly_pmt' = c.monthly_pmt.value
                     /\ \E t \in {total_monthly_payment(
                                      c.monthly_pmt.value,
                                      convert_rates(property_taxes),
                                      home_insurance, hoa, sale_price)} :
                           resp' = [financed_amt |-> c.financed_amt,
                                    monthly_pmt |-> c.monthly_pmt.value,
                                    amortization |-> Zip(c.amortization[1],
                                                         c.amortization[2],
                                                         c.amortization[3]),
                                    total_payment |-> t[1],
                                    monthly_home_insurance |-> t[2],
                                    monthly_property_tax |-> t[3]]
                     /\ pc' = "done"
                     /\ UNCHANGED raised
    /\ UNCHANGED <<am, period, principal_pmt, interest_pmt, balance>>

Next == Calculate

Spec == Init /\ [][Next]_vars

(***************************************************************************)
(* amortization() as a function of its three arguments, called with any    *)
(* monthly payment, rate and financed amount, one loop iteration per step. *)
(***************************************************************************)
MaxPayment == 3

MaxRate == 1

MaxFinanced == 3

AmortPayments == {Num(k) : k \in 0..MaxPayment}

AmortRates == {Num(k) : k \in 0..MaxRate} \cup {Frac(1, 2)}

AmortFinanced == {Num(k) : k \in 0..MaxFinanced}

InitAmortization ==
    /\ pc = "amortization"
    /\ inputs = NoInputs
    /\ kwargs = NoInputs
    /\ financed_amt = Zero
    /\ monthly_interest_rate = Zero
    /\ monthly_pmt = Zero
    /\ \E p \in AmortPayments, r \in AmortRates, f \in AmortFinanced :
          am = [monthly_payment |-> p, monthly_interest_rate |-> r,
                financed_amt |-> f, start |-> f]
    /\ period = 1
    /\ principal_pmt = <<>>
    /\ interest_pmt = <<>>
    /\ balance = <<>>
    /\ resp = NoResp
    /\ raised = ""

\* One iteration of for _ in range(1, 362).
AmortizationStep ==
    /\ pc = "amortization"
    /\ period < 362
    /\ \E b \in {amortization_body(am.monthly_payment, am.monthly_interest_rate,
                                   am.financed_amt)} :
          /\ interest_pmt' = Append(interest_pmt, b.interest)
          /\ principal_pmt' = Append(principal_pmt, b.principal)
          /\ am' = [am EXCEPT !.financed_amt = b.financed_amt]
          /\ balance' = Append(balance, b.financed_amt)
    /\ period' = period + 1
    /\ UNCHANGED <<pc, calcVars, resp, raised>>

\* return principal_pmt, interest_pmt, balance (line 178): the three lists are
\* what the caller receives.
AmortizationReturn ==
    /\ pc = "amortization"
    /\ period = 362
    /\ pc' = "returned"
    /\ UNCHANGED <<calcVars, am, period, principal_pmt, interest_pmt, balance,
                   resp, raised>>

NextAmortization == AmortizationStep \/ AmortizationReturn

SpecAmortization == InitAmortization /\ [][NextAmortization]_vars

(***************************************************************************)
(* monthly_payment() as a function of its two arguments.                   *)
(***************************************************************************)
MaxLoan == 5

PaymentRates ==
    {Zero, Frac(1, 10000), Frac(1, 200), Frac(49, 9600), Frac(1, 12),
     Frac(1, 2), One, Num(2)}

PaymentFinanced == {Num(k * 100000) : k \in (-1)..MaxLoan}

InitPayment ==
    /\ pc = "call"
    /\ inputs = NoInputs
    /\ kwargs = NoInputs
    /\ monthly_interest_rate \in PaymentRates
    /\ financed_amt \in PaymentFinanced
    /\ monthly_pmt = Zero
    /\ am = NoFrame
    /\ period = 0
    /\ principal_pmt = <<>>
    /\ interest_pmt = <<>>
    /\ balance = <<>>
    /\ resp = NoResp
    /\ raised = ""

MonthlyPayment ==
    /\ pc = "call"
    /\ \E r \in {monthly_payment(monthly_interest_rate, financed_amt)} :
          IF r.raised # ""
          THEN raised' = r.raised /\ pc' = "raised" /\ UNCHANGED monthly_pmt
          ELSE monthly_pmt' = r.value /\ pc' = "returned" /\ UNCHANGED raised
    /\ UNCHANGED <<inputs, kwargs, financed_amt, monthly_interest_rate, am,
                   period, principal_pmt, interest_pmt, balance, resp>>

NextPayment == MonthlyPayment

SpecPayment == InitPayment /\ [][NextPayment]_vars
(***************************************************************************)
(* Properties.                                                             *)
(***************************************************************************)
IsPos(x) == Sign(x) > 0

\* The annuity payment on f at rate r over n periods.
Annuity(r, f, n) ==
    Mul(f, Div(Mul(r, Pow(Add(One, r), n)), Sub(Pow(Add(One, r), n), One)))

\* The sum of the principal column of rows lo..hi.
RECURSIVE SumPrincipal(_, _, _)
SumPrincipal(rows, lo, hi) ==
    IF lo > hi THEN Zero
    ELSE IF lo = hi THEN rows[lo].principal
    ELSE LET mid == (lo + hi) \div 2
         IN Add(SumPrincipal(rows, lo, mid), SumPrincipal(rows, mid + 1, hi))

\* C1: the schedule calculate() returns has exactly 360 rows, one per period
\* 1..360.
C1_ScheduleHas360Rows == pc = "done" => Len(resp.amortization) = 360

\* C2: at a monthly rate of 0 monthly_payment() raises nothing and returns
\* exactly financed_amt / 360.
C2_ZeroRateIsLinear ==
    (pc # "call" /\ Sign(monthly_interest_rate) = 0)
        => /\ raised = ""
           /\ Eq(monthly_pmt, Div(financed_amt, Num(360)))

\* C3: for a rate > 0 the payment calculate() gets from monthly_payment() is the
\* annuity payment with the exponent 360, and 360 is also the number of periods
\* the loop of amortization() has iterated.
C3_ExponentIsTermMonths ==
    (pc = "done" /\ IsPos(monthly_interest_rate))
        => /\ Eq(resp.monthly_pmt,
                 Annuity(monthly_interest_rate, financed_amt, 360))
           /\ Len(resp.amortization) = 360

C6_BalanceNonIncreasing ==
    (/\ pc = "returned"
     /\ Sign(am.monthly_interest_rate) >= 0
     /\ Lt(interest_pmt[1], am.monthly_payment))
        => \A t \in 1..(Len(balance) - 1) : Le(balance[t + 1], balance[t])

C6_Witness ==
    /\ pc = "returned"
    /\ IsPos(am.monthly_interest_rate)
    /\ IsPos(interest_pmt[1])
    /\ Lt(interest_pmt[1], am.monthly_payment)
    /\ Lt(balance[2], balance[1])
    /\ Lt(balance[Len(balance)], balance[Len(balance) - 1])

\* The value the down payment rule gives for v on sale price p.
IsNormalizedDownPayment(out, v, p) ==
    /\ (Le(Zero, v) /\ Le(v, One)) => Eq(out, Mul(p, v))
    /\ Lt(One, v) => Eq(out, v)

\* C7: convert_down_payment() gives sale_price * down_pmt for 0 <= down_pmt <= 1
\* (bounds included) and down_pmt itself above 1, and calculate() reports
\* financed_amt = sale_price - that value (400000 for 100000 down on 500000,
\* 475000 for 0.05 down).
C7_DownPaymentNormalized ==
    /\ pc # "idle"
        => /\ IsNormalizedDownPayment(kwargs.down_pmt, inputs.down_pmt,
                                      inputs.sale_price)
           /\ Eq(financed_amt, Sub(inputs.sale_price, kwargs.down_pmt))
    /\ pc = "done"
        => /\ Eq(resp.financed_amt, Sub(inputs.sale_price, kwargs.down_pmt))
           /\ (inputs.sale_price = Num(500000) /\ inputs.down_pmt = Num(100000))
                  => resp.financed_amt = Num(400000)
           /\ (inputs.sale_price = Num(500000) /\ inputs.down_pmt = Frac(5, 100))
                  => resp.financed_amt = Num(475000)
           /\ (inputs.sale_price = Num(500000) /\ inputs.down_pmt = One)
                  => resp.financed_amt = Zero

C7_Witness ==
    /\ pc = "done"
    /\ inputs.down_pmt = One
    /\ kwargs.down_pmt = inputs.sale_price
    /\ IsPos(inputs.sale_price)

\* The value the rate rule gives for v.
IsNormalizedRate(out, v) ==
    /\ (Le(Zero, v) /\ Le(v, One)) => Eq(out, v)
    /\ Lt(One, v) => Eq(out, Div(v, Num(100)))

\* C8: convert_rates() leaves a rate in [0, 1] unchanged (1 included) and divides
\* a rate above 1 by 100; calculate() applies it to the interest rate and to the
\* property tax rate before it uses them.
C8_RatesNormalized ==
    pc # "idle"
        => /\ IsNormalizedRate(kwargs.interest_rate, inputs.interest_rate)
           /\ IsNormalizedRate(kwargs.property_taxes, inputs.property_taxes)
           /\ Eq(monthly_interest_rate, Div(kwargs.interest_rate, Num(12)))
           /\ inputs.property_taxes = One => kwargs.property_taxes = One
           /\ pc = "done"
                  => Eq(resp.monthly_property_tax,
                        Div(Mul(inputs.sale_price, kwargs.property_taxes),
                            Num(12)))

C8_Witness ==
    /\ pc = "done"
    /\ inputs.property_taxes = One
    /\ kwargs.property_taxes = One
    /\ Lt(One, inputs.interest_rate)
    /\ Eq(Mul(kwargs.interest_rate, Num(100)), inputs.interest_rate)

\* C9: the summary calculate() returns has monthly_home_insurance =
\* home_insurance / 12, monthly_property_tax = sale_price * (normalised property
\* tax rate) / 12, on the sale price and not on the financed amount, and
\* total_payment = monthly_pmt + monthly_home_insurance + monthly_property_tax
\* + hoa.
C9_MonthlySummary ==
    pc = "done"
        => /\ Eq(resp.monthly_home_insurance,
                 Div(inputs.home_insurance, Num(12)))
           /\ Eq(resp.monthly_property_tax,
                 Div(Mul(inputs.sale_price, kwargs.property_taxes), Num(12)))
           /\ Eq(resp.total_payment,
                 Add(Add(Add(resp.monthly_pmt, resp.monthly_home_insurance),
                         resp.monthly_property_tax), inputs.hoa))

C9_Witness ==
    /\ pc = "done"
    /\ IsPos(inputs.hoa)
    /\ IsPos(inputs.home_insurance)
    /\ IsPos(resp.monthly_property_tax)
    /\ ~Eq(resp.financed_amt, inputs.sale_price)
    /\ Lt(resp.monthly_pmt, resp.total_payment)

\* The balance before row t of the lists of amortization().
BalanceBefore(t) == IF t = 1 THEN am.start ELSE balance[t - 1]

\* C10: in every row t amortization() returns, the interest is the balance
\* before the row times the monthly rate, the principal is the payment minus
\* that interest, the balance is the balance before the row minus that
\* principal, and principal + interest is the payment.
C10_RowRecurrence ==
    pc = "returned"
        => /\ Len(interest_pmt) = Len(balance)
           /\ Len(principal_pmt) = Len(balance)
           /\ \A t \in 1..Len(balance) :
                 /\ Eq(interest_pmt[t],
                       Mul(BalanceBefore(t), am.monthly_interest_rate))
                 /\ Eq(principal_pmt[t],
                       Sub(am.monthly_payment, interest_pmt[t]))
                 /\ Eq(balance[t], Sub(BalanceBefore(t), principal_pmt[t]))
                 /\ Eq(Add(principal_pmt[t], interest_pmt[t]),
                       am.monthly_payment)

C10_Witness ==
    /\ pc = "returned"
    /\ IsPos(am.monthly_interest_rate)
    /\ Len(balance) >= 2
    /\ ~Eq(balance[1], am.start)
    /\ ~Eq(interest_pmt[2], interest_pmt[1])
====
